---- MODULE Spec2Model ----
(***************************************************************************)
(* Model of the client-side authentication context (AuthProvider) and of   *)
(* the ProtectedRoute guard.                                               *)
(*                                                                         *)
(* authState is the React state of AuthProvider.  Every async function of  *)
(* the provider is a task that suspends at each await; one action models   *)
(* the code that runs between two awaits.  What the Identity Provider and  *)
(* the Profile Store answer is an input of the step that resumes the task. *)
(***************************************************************************)
EXTENDS Integers, FiniteSets, Sequences, TLC

\* ---------------------------------------------------------------- bounds
\* the clock stops at MaxTime; MaxOps bounds the events of the environment:
\* the operations invoked by callers, the notifications delivered by the
\* provider and the ticks of the clock
MaxTime == 1
MaxOps == 2

\* ---------------------------------------------------------------- values
Users == {"u1", "u2"}
Names == {"alice", "bob"}

NullUser == "null"
NullError == "null"
NullProfile == [id |-> "null", username |-> "null"]
\* expires_at is optional in Session: Absent stands for undefined
Absent == -1
NullSession == [user |-> "null", expires_at |-> Absent]

\* sessions the Identity Provider can hand out at time t
SessionsAt(t) == [user : Users, expires_at : {t + 1}]

\* the row of profiles whose id is uid, as .eq('id', uid).single() returns it
ProfilesOf(uid) == [id : {uid}, username : Names]

\* failures: the class of the thrown value and its message
NoErr == [kind |-> "none", message |-> "null"]
AuthErrors == {[kind |-> "AuthError", message |-> "provider message"]}
StoreErrors == {[kind |-> "Error", message |-> "store message"],
                [kind |-> "Object", message |-> "store message"]}
NoSessionError == [kind |-> "Error", message |-> "No session created after sign in"]
ConfirmationError == [kind |-> "Error", message |-> "Email confirmation required. Please check your inbox."]
NoUserError == [kind |-> "Error", message |-> "No authenticated user"]

InstanceOfAuthError(e) == e.kind = "AuthError"
InstanceOfError(e) == e.kind \in {"AuthError", "Error"}

VARIABLES authState, initT, handlers, signInT, signUpT, signOutT,
          updateT, ops, now, subscribed, last

vars == <<authState, initT, handlers, signInT, signUpT, signOutT,
          updateT, ops, now, subscribed, last>>

\* ------------------------------------------------- the setAuthState values
InitialState ==
  [user |-> NullUser, profile |-> NullProfile, session |-> NullSession,
   loading |-> TRUE, error |-> NullError, isAuthenticated |-> FALSE]

\* the session is left out of the object handed to setAuthState
AuthenticatedState_NoSession(u, p, s) ==
  [user |-> u, profile |-> NullProfile, session |-> NullSession,
   loading |-> FALSE, error |-> NullError, isAuthenticated |-> TRUE]

\* the fetched profile is left out of the object handed to setAuthState
AuthenticatedState_NoProfile(u, p, s) ==
  [user |-> u, profile |-> NullProfile, session |-> s,
   loading |-> FALSE, error |-> NullError, isAuthenticated |-> TRUE]

AuthenticatedState(u, p, s) ==
  [user |-> u, profile |-> p, session |-> s,
   loading |-> FALSE, error |-> NullError, isAuthenticated |-> TRUE]

\* the empty state is a copy of the initial one, loading included
EmptyState_StillLoading ==
  [user |-> NullUser, profile |-> NullProfile, session |-> NullSession,
   loading |-> TRUE, error |-> NullError, isAuthenticated |-> FALSE]

EmptyState ==
  [user |-> NullUser, profile |-> NullProfile, session |-> NullSession,
   loading |-> FALSE, error |-> NullError, isAuthenticated |-> FALSE]

\* the catch branch leaves loading as it found it
InitializeCatch_KeepsLoading(prev, e) ==
  [prev EXCEPT !.error = IF InstanceOfError(e) THEN e.message
                         ELSE "Authentication initialization failed",
               !.isAuthenticated = FALSE]

InitializeCatch(prev, e) ==
  [prev EXCEPT !.loading = FALSE,
               !.error = IF InstanceOfError(e) THEN e.message
                         ELSE "Authentication initialization failed",
               !.isAuthenticated = FALSE]

\* the catch branch resets the state instead of spreading prev
SignInCatch_Resets(prev, e) ==
  [EmptyState EXCEPT !.error = IF InstanceOfAuthError(e) THEN e.message
                               ELSE "Failed to sign in. Please check your credentials and try again."]

\* the catch branch sets error only, as signOut's does
SignInCatch_KeepsFlag(prev, e) ==
  [prev EXCEPT !.error = IF InstanceOfAuthError(e) THEN e.message
                         ELSE "Failed to sign in. Please check your credentials and try again."]

SignInCatch(prev, e) ==
  [prev EXCEPT !.error = IF InstanceOfAuthError(e) THEN e.message
                         ELSE "Failed to sign in. Please check your credentials and try again.",
               !.isAuthenticated = FALSE]

\* the catch branch sets error only, as signOut's does
SignUpCatch_KeepsFlag(prev, e) ==
  [prev EXCEPT !.error = IF InstanceOfAuthError(e) THEN e.message
                         ELSE "Registration failed. Please try again."]

SignUpCatch(prev, e) ==
  [prev EXCEPT !.error = IF InstanceOfAuthError(e) THEN e.message
                         ELSE "Registration failed. Please try again.",
               !.isAuthenticated = FALSE]

\* the catch branch also clears the flag, as signIn's does
SignOutCatch_ClearsFlag(prev, e) ==
  [prev EXCEPT !.error = IF InstanceOfAuthError(e) THEN e.message
                         ELSE "Failed to sign out. Please try again.",
               !.isAuthenticated = FALSE]

SignOutCatch(prev, e) ==
  [prev EXCEPT !.error = IF InstanceOfAuthError(e) THEN e.message
                         ELSE "Failed to sign out. Please try again."]

\* the returned row is not stored: the profile is cleared
UpdateProfileSuccess_DropsProfile(prev, data) ==
  [prev EXCEPT !.profile = NullProfile, !.error = NullError]

\* the success branch replaces the profile but keeps the last error
UpdateProfileSuccess_KeepsError(prev, data) ==
  [prev EXCEPT !.profile = data]

UpdateProfileSuccess(prev, data) ==
  [prev EXCEPT !.profile = data, !.error = NullError]

\* the catch branch only rethrows
UpdateProfileCatch_Silent(prev, e) == prev

UpdateProfileCatch(prev, e) ==
  [prev EXCEPT !.error = IF InstanceOfError(e) THEN e.message
                         ELSE "Failed to update profile. Please try again."]

ClearedError(prev) == [prev EXCEPT !.error = NullError]

\* ---------------------------------------------------------------- tasks
\* what a caller of signIn sees of SessionState when it calls
Seen(st) == [user |-> st.user, profile |-> st.profile, session |-> st.session,
             loading |-> st.loading, isAuthenticated |-> st.isAuthenticated]

\* signIn keeps, besides its position, the SessionState it was called in
IdleSignIn == [pc |-> "idle", session |-> NullSession, at |-> Seen(InitialState),
               superseded |-> FALSE]
IdleSignUp == [pc |-> "idle", session |-> NullSession]
IdleSignOut == [pc |-> "idle"]
IdleUpdate == [pc |-> "idle", uid |-> NullUser, name |-> "null"]

\* the operation that completed most recently: how it ended for its caller
\* (its promise resolved or rejected), at which call it failed, and whether
\* isAuthenticated was set when it completed
Ev(op, outcome, cause) ==
  [op |-> op, outcome |-> outcome, cause |-> cause,
   was |-> authState.isAuthenticated]

Init ==
  /\ authState = InitialState
  /\ initT = [pc |-> "getSession", session |-> NullSession, superseded |-> FALSE]
  /\ handlers = {}
  /\ signInT = IdleSignIn
  /\ signUpT = IdleSignUp
  /\ signOutT = IdleSignOut
  /\ updateT = IdleUpdate
  /\ ops = 0
  /\ now = 0
  /\ subscribed = TRUE
  /\ last = Ev("mount", "resolved", "")

\* a task that is suspended on its profile fetch when a later notification
\* writes SessionState holds a session read before that write: it is marked,
\* the code keeps no such mark
Superseded(task, fetching) ==
  IF task.pc = fetching THEN [task EXCEPT !.superseded = TRUE] ELSE task

\* ------------------------------------------------------- initializeAuth
\* sessionError is thrown outside any try, as in the notification callback
RestoreGetSession_NoCatch ==
  /\ initT.pc = "getSession"
  /\ \/ \E e \in AuthErrors :
          /\ UNCHANGED authState
          /\ initT' = [pc |-> "done", session |-> NullSession, superseded |-> FALSE]
          /\ last' = Ev("restore", "rejected", "provider")
     \/ /\ authState' = EmptyState
        /\ initT' = [pc |-> "done", session |-> NullSession, superseded |-> FALSE]
        /\ last' = Ev("restore", "resolved", "noSession")
     \/ \E s \in SessionsAt(now) :
          /\ initT' = [initT EXCEPT !.pc = "fetchProfile", !.session = s]
          /\ UNCHANGED last
          /\ UNCHANGED authState
  /\ UNCHANGED <<handlers, signInT, signUpT, signOutT, updateT,
                 ops, now, subscribed>>

\* getSession() answers: an error, no session, or a session
RestoreGetSession ==
  /\ initT.pc = "getSession"
  /\ \/ \E e \in AuthErrors :
          /\ authState' = InitializeCatch(authState, e)
          /\ initT' = [pc |-> "done", session |-> NullSession, superseded |-> FALSE]
          /\ last' = Ev("restore", "resolved", "provider")
     \/ /\ authState' = EmptyState
        /\ initT' = [pc |-> "done", session |-> NullSession, superseded |-> FALSE]
        /\ last' = Ev("restore", "resolved", "noSession")
     \/ \E s \in SessionsAt(now) :
          /\ initT' = [initT EXCEPT !.pc = "fetchProfile", !.session = s]
          /\ UNCHANGED last
          /\ UNCHANGED authState
  /\ UNCHANGED <<handlers, signInT, signUpT, signOutT, updateT,
                 ops, now, subscribed>>

\* fetchProfile(session.user.id) answers: the profile, or it throws
RestoreFetchProfile ==
  /\ initT.pc = "fetchProfile"
  /\ \/ \E p \in ProfilesOf(initT.session.user) :
          /\ authState' = AuthenticatedState(initT.session.user, p, initT.session)
          /\ last' = Ev("restore", "resolved", "")
     \/ \E e \in StoreErrors :
          /\ authState' = InitializeCatch(authState, e)
          /\ last' = Ev("restore", "resolved", "fetch")
  /\ initT' = [pc |-> "done", session |-> NullSession, superseded |-> FALSE]
  /\ UNCHANGED <<handlers, signInT, signUpT, signOutT, updateT,
                 ops, now, subscribed>>

\* ------------------------------------------- onAuthStateChange callback
\* the provider delivers a session: the callback runs up to its await
NotifySession ==
  /\ subscribed
  /\ ops < MaxOps
  /\ \E s \in SessionsAt(now) :
       /\ \A h \in handlers : h.session # s
       /\ handlers' = handlers \cup {[session |-> s, superseded |-> FALSE]}
  /\ ops' = ops + 1
  /\ UNCHANGED last
  /\ UNCHANGED <<authState, initT, signInT, signUpT, signOutT, updateT,
                 now, subscribed>>

\* the else branch clears the identity and the flag but spreads prev
NotifyNull_SpreadsPrev ==
  /\ subscribed
  /\ ops < MaxOps
  /\ authState' = [authState EXCEPT !.user = NullUser, !.session = NullSession,
                                    !.loading = FALSE, !.isAuthenticated = FALSE]
  /\ ops' = ops + 1
  /\ last' = Ev("notification", "resolved", "noSession")
  /\ initT' = Superseded(initT, "fetchProfile")
  /\ handlers' = {[h EXCEPT !.superseded = TRUE] : h \in handlers}
  /\ signInT' = Superseded(signInT, "fetch")
  /\ UNCHANGED <<signUpT, signOutT, updateT, now, subscribed>>

\* the provider delivers no session: the callback has no await on this path
NotifyNull ==
  /\ subscribed
  /\ ops < MaxOps
  /\ authState' = EmptyState
  /\ ops' = ops + 1
  /\ last' = Ev("notification", "resolved", "noSession")
  /\ initT' = Superseded(initT, "fetchProfile")
  /\ handlers' = {[h EXCEPT !.superseded = TRUE] : h \in handlers}
  /\ signInT' = Superseded(signInT, "fetch")
  /\ UNCHANGED <<signUpT, signOutT, updateT, now, subscribed>>

\* a suspended callback resumes: the profile arrived, or fetchProfile threw
\* and the callback's promise is rejected with nobody to catch it
NotifyFetchProfile ==
  /\ \E h \in handlers :
       /\ handlers' = handlers \ {h}
       /\ \/ \E p \in ProfilesOf(h.session.user) :
               /\ authState' = AuthenticatedState(h.session.user, p, h.session)
               /\ last' = Ev("notification", "resolved", "")
          \/ \E e \in StoreErrors :
               /\ UNCHANGED authState
               /\ last' = Ev("notification", "rejected", "fetch")
  /\ UNCHANGED <<initT, signInT, signUpT, signOutT, updateT,
                 ops, now, subscribed>>

\* ---------------------------------------------------------------- signIn
\* a caller invokes signIn: it runs up to await signInWithPassword
SignInCall ==
  /\ subscribed
  /\ ops < MaxOps
  /\ signInT.pc = "idle"
  /\ signInT' = [pc |-> "auth", session |-> NullSession, at |-> Seen(authState),
                superseded |-> FALSE]
  /\ ops' = ops + 1
  /\ UNCHANGED last
  /\ UNCHANGED <<authState, initT, handlers, signUpT, signOutT,
                 updateT, now, subscribed>>

\* signInWithPassword answers: an error, neither error nor session, a session
SignInPassword ==
  /\ signInT.pc = "auth"
  /\ \/ \E e \in AuthErrors :
          /\ authState' = SignInCatch(authState, e)
          /\ signInT' = IdleSignIn
          /\ last' = Ev("signIn", "rejected", "provider")
     \/ /\ authState' = SignInCatch(authState, NoSessionError)
        /\ signInT' = IdleSignIn
        /\ last' = Ev("signIn", "rejected", "noSession")
     \/ \E s \in SessionsAt(now) :
          /\ signInT' = [signInT EXCEPT !.pc = "fetch", !.session = s]
          /\ UNCHANGED last
          /\ UNCHANGED authState
  /\ UNCHANGED <<initT, handlers, signUpT, signOutT, updateT,
                 ops, now, subscribed>>

\* fetchProfile(session.user.id) answers inside signIn
SignInFetchProfile ==
  /\ signInT.pc = "fetch"
  /\ \/ \E p \in ProfilesOf(signInT.session.user) :
          /\ authState' = AuthenticatedState(signInT.session.user, p, signInT.session)
          /\ last' = Ev("signIn", "resolved", "")
     \/ \E e \in StoreErrors :
          /\ authState' = SignInCatch(authState, e)
          /\ last' = Ev("signIn", "rejected", "fetch")
  /\ signInT' = IdleSignIn
  /\ UNCHANGED <<initT, handlers, signUpT, signOutT, updateT,
                 ops, now, subscribed>>

\* ---------------------------------------------------------------- signUp
SignUpCall ==
  /\ subscribed
  /\ ops < MaxOps
  /\ signUpT.pc = "idle"
  /\ signUpT' = [pc |-> "auth", session |-> NullSession]
  /\ ops' = ops + 1
  /\ UNCHANGED last
  /\ UNCHANGED <<authState, initT, handlers, signInT, signOutT,
                 updateT, now, subscribed>>

\* auth.signUp answers: an error, a user without session (confirmation
\* pending), or a user with a session
SignUpProvider ==
  /\ signUpT.pc = "auth"
  /\ \/ \E e \in AuthErrors :
          /\ authState' = SignUpCatch(authState, e)
          /\ signUpT' = IdleSignUp
          /\ last' = Ev("signUp", "rejected", "provider")
     \/ /\ authState' = SignUpCatch(authState, ConfirmationError)
        /\ signUpT' = IdleSignUp
        /\ last' = Ev("signUp", "rejected", "noSession")
     \/ \E s \in SessionsAt(now) :
          /\ signUpT' = [pc |-> "fetch", session |-> s]
          /\ UNCHANGED last
          /\ UNCHANGED authState
  /\ UNCHANGED <<initT, handlers, signInT, signOutT, updateT,
                 ops, now, subscribed>>

SignUpFetchProfile ==
  /\ signUpT.pc = "fetch"
  /\ \/ \E p \in ProfilesOf(signUpT.session.user) :
          /\ authState' = AuthenticatedState(signUpT.session.user, p, signUpT.session)
          /\ last' = Ev("signUp", "resolved", "")
     \/ \E e \in StoreErrors :
          /\ authState' = SignUpCatch(authState, e)
          /\ last' = Ev("signUp", "rejected", "fetch")
  /\ signUpT' = IdleSignUp
  /\ UNCHANGED <<initT, handlers, signInT, signOutT, updateT,
                 ops, now, subscribed>>

\* --------------------------------------------------------------- signOut
SignOutCall ==
  /\ subscribed
  /\ ops < MaxOps
  /\ signOutT.pc = "idle"
  /\ signOutT' = [pc |-> "auth"]
  /\ ops' = ops + 1
  /\ UNCHANGED last
  /\ UNCHANGED <<authState, initT, handlers, signInT, signUpT,
                 updateT, now, subscribed>>

\* the success branch spreads prev and so keeps the last error
SignOutProvider_KeepsError ==
  /\ signOutT.pc = "auth"
  /\ \/ \E e \in AuthErrors :
          /\ authState' = SignOutCatch(authState, e)
          /\ last' = Ev("signOut", "rejected", "provider")
     \/ /\ authState' = [EmptyState EXCEPT !.error = authState.error]
        /\ last' = Ev("signOut", "resolved", "")
  /\ signOutT' = IdleSignOut
  /\ UNCHANGED <<initT, handlers, signInT, signUpT, updateT,
                 ops, now, subscribed>>

\* auth.signOut answers: an error or success
SignOutProvider ==
  /\ signOutT.pc = "auth"
  /\ \/ \E e \in AuthErrors :
          /\ authState' = SignOutCatch(authState, e)
          /\ last' = Ev("signOut", "rejected", "provider")
     \/ /\ authState' = EmptyState
        /\ last' = Ev("signOut", "resolved", "")
  /\ signOutT' = IdleSignOut
  /\ UNCHANGED <<initT, handlers, signInT, signUpT, updateT,
                 ops, now, subscribed>>

\* --------------------------------------------------------- updateProfile
\* the check for a user is inside the try: its failure is recorded in error
UpdateProfileCall_GuardInsideTry ==
  /\ subscribed
  /\ ops < MaxOps
  /\ updateT.pc = "idle"
  /\ IF authState.user = NullUser
       THEN /\ last' = Ev("updateProfile", "rejected", "precondition")
            /\ authState' = UpdateProfileCatch(authState, NoUserError)
            /\ UNCHANGED updateT
       ELSE /\ \E nm \in Names :
                 updateT' = [pc |-> "store", uid |-> authState.user, name |-> nm]
            /\ UNCHANGED <<last, authState>>
  /\ ops' = ops + 1
  /\ UNCHANGED <<initT, handlers, signInT, signUpT,
                 signOutT, now, subscribed>>

\* a caller invokes updateProfile: without a user it throws at once, with
\* one it sends the update scoped to authState.user.id and awaits
UpdateProfileCall ==
  /\ subscribed
  /\ ops < MaxOps
  /\ updateT.pc = "idle"
  /\ IF authState.user = NullUser
       THEN /\ last' = Ev("updateProfile", "rejected", "precondition")
            /\ UNCHANGED updateT
       ELSE /\ \E nm \in Names :
                 updateT' = [pc |-> "store", uid |-> authState.user, name |-> nm]
            /\ UNCHANGED last
  /\ ops' = ops + 1
  /\ UNCHANGED <<authState, initT, handlers, signInT, signUpT,
                 signOutT, now, subscribed>>

\* the store answers the update: an error, or the updated row
UpdateProfileStore ==
  /\ updateT.pc = "store"
  /\ \/ \E e \in StoreErrors :
          /\ authState' = UpdateProfileCatch(authState, e)
          /\ last' = Ev("updateProfile", "rejected", "store")
     \/ /\ authState' = UpdateProfileSuccess(authState,
                            [id |-> updateT.uid, username |-> updateT.name])
        /\ last' = Ev("updateProfile", "resolved", "")
  /\ updateT' = IdleUpdate
  /\ UNCHANGED <<initT, handlers, signInT, signUpT, signOutT,
                 ops, now, subscribed>>

\* ------------------------------------------------------------ clearError
ClearError ==
  /\ subscribed
  /\ ops < MaxOps
  /\ authState' = ClearedError(authState)
  /\ ops' = ops + 1
  /\ last' = Ev("clearError", "resolved", "")
  /\ UNCHANGED <<initT, handlers, signInT, signUpT, signOutT,
                 updateT, now, subscribed>>

\* ----------------------------------------------------------- environment
\* the clock (epoch seconds) advances
Tick ==
  /\ now < MaxTime
  /\ ops < MaxOps
  /\ now' = now + 1
  /\ ops' = ops + 1
  /\ UNCHANGED last
  /\ UNCHANGED <<authState, initT, handlers, signInT, signUpT,
                 signOutT, updateT, subscribed>>

\* the effect's cleanup: subscription.unsubscribe()
Teardown ==
  /\ subscribed
  /\ subscribed' = FALSE
  /\ UNCHANGED last
  /\ UNCHANGED <<authState, initT, handlers, signInT, signUpT,
                 signOutT, updateT, ops, now>>

Next ==
  \/ RestoreGetSession
  \/ RestoreFetchProfile
  \/ NotifySession
  \/ NotifyNull
  \/ NotifyFetchProfile
  \/ SignInCall
  \/ SignInPassword
  \/ SignInFetchProfile
  \/ SignUpCall
  \/ SignUpProvider
  \/ SignUpFetchProfile
  \/ SignOutCall
  \/ SignOutProvider
  \/ UpdateProfileCall
  \/ UpdateProfileStore
  \/ ClearError
  \/ Tick
  \/ Teardown

Spec == Init /\ [][Next]_vars

\* the calls restore() awaits, getSession and its fetchProfile, are answered
FairSpec ==
  /\ Spec
  /\ WF_vars(RestoreGetSession)
  /\ WF_vars(RestoreFetchProfile)

\* -------------------------------------------------------- ProtectedRoute
\* truthiness of a value of type number | undefined
Truthy(n) == n # Absent /\ n # 0

\* session.expires_at && Date.now() / 1000 >= session.expires_at
SessionExpired(s, t) == Truthy(s.expires_at) /\ t >= s.expires_at

\* what ProtectedRoute returns for the context value st at time t
ProtectedRoute(st, t) ==
  IF st.loading THEN "spinner"
  ELSE IF st.error \notin {NullError, ""} THEN "error"
  ELSE IF ~st.isAuthenticated \/ st.session = NullSession THEN "login"
  ELSE IF SessionExpired(st.session, t) THEN "expired"
  ELSE "children"

\* the sessions a provider can hand out as far as the type Session goes:
\* expires_at absent, zero, past or future
RouteSessions == [user : Users, expires_at : {Absent} \cup (0..(MaxTime + 1))]

\* context values ProtectedRoute can be given: the states setAuthState
\* produces from such sessions, as they are or after a failed signIn (flag
\* cleared, error set) or a failed signOut (error set)
RouteBaseStates ==
  {InitialState, EmptyState} \cup
  {AuthenticatedState(x[1].user, x[2], x[1]) :
     x \in {y \in RouteSessions \X [id : Users, username : Names] :
              y[2] \in ProfilesOf(y[1].user)}}

RouteStates ==
  RouteBaseStates \cup
  {SignInCatch(b, e) : b \in RouteBaseStates, e \in AuthErrors} \cup
  {SignOutCatch(b, e) : b \in RouteBaseStates, e \in AuthErrors}

RouteInit ==
  /\ authState \in RouteStates
  /\ now \in 0..MaxTime
  /\ initT = [pc |-> "done", session |-> NullSession, superseded |-> FALSE]
  /\ handlers = {}
  /\ signInT = IdleSignIn
  /\ signUpT = IdleSignUp
  /\ signOutT = IdleSignOut
  /\ updateT = IdleUpdate
  /\ ops = 0
  /\ subscribed = TRUE
  /\ last = Ev("mount", "resolved", "")

\* a protected page is rendered: the route evaluates the context value
RenderRoute ==
  /\ last' = [op |-> "render", outcome |-> ProtectedRoute(authState, now),
              cause |-> "", was |-> authState.isAuthenticated]
  /\ UNCHANGED <<authState, initT, handlers, signInT, signUpT, signOutT,
                 updateT, ops, now, subscribed>>

RouteNext == RenderRoute

RouteSpec == RouteInit /\ [][RouteNext]_vars

TypeOK ==
  /\ authState.user \in Users \cup {NullUser}
  /\ authState.profile \in {NullProfile} \cup [id : Users, username : Names]
  /\ authState.session \in {NullSession} \cup RouteSessions
  /\ authState.loading \in BOOLEAN
  /\ authState.isAuthenticated \in BOOLEAN
  /\ initT.pc \in {"getSession", "fetchProfile", "done"}
  /\ signInT.pc \in {"idle", "auth", "fetch"}
  /\ signUpT.pc \in {"idle", "auth", "fetch"}
  /\ signOutT.pc \in {"idle", "auth"}
  /\ updateT.pc \in {"idle", "store"}
  /\ now \in 0..MaxTime
  /\ ops \in 0..MaxOps
  /\ subscribed \in BOOLEAN
  /\ initT.superseded \in BOOLEAN
  /\ signInT.superseded \in BOOLEAN
  /\ \A h \in handlers : h.session \in RouteSessions /\ h.superseded \in BOOLEAN

\* ======================================================== the properties

\* the steps at which an operation completes
RestoreFetchFailed == last.op = "restore" /\ last.cause = "fetch"

SignInProviderFails ==
  /\ signInT.pc = "auth"
  /\ signInT'.pc = "idle"

SignInFetchFails ==
  /\ signInT.pc = "fetch"
  /\ signInT'.pc = "idle"
  /\ last'.outcome = "rejected"

SignInSucceeds ==
  /\ signInT.pc = "fetch"
  /\ signInT'.pc = "idle"
  /\ last'.outcome = "resolved"

SignOutFails ==
  /\ signOutT.pc = "auth"
  /\ signOutT'.pc = "idle"
  /\ last'.outcome = "rejected"

\* ---- C1
\* C1 as stated: in every reachable state isAuthenticated is true if and
\* only if user and session are both non-null and the session has not
\* expired (now < expires_at).
C1_AuthenticatedIffValidSession ==
  authState.isAuthenticated <=>
    /\ authState.user # NullUser
    /\ authState.session # NullSession
    /\ now < authState.session.expires_at

\* C1 amended: in every reachable state isAuthenticated is true only if
\* user and session are both non-null and user is the session's user.
\* (Nothing in the provider looks at the clock, and the catch branches of
\* restore, signIn and signUp clear the flag while keeping user and session.)
C1_AuthenticatedImpliesUserAndSession ==
  authState.isAuthenticated =>
    /\ authState.user # NullUser
    /\ authState.session # NullSession
    /\ authState.user = authState.session.user

\* the flag is still set over a session whose expires_at has passed
C1_Witness ==
  /\ authState.isAuthenticated
  /\ authState.session # NullSession
  /\ now >= authState.session.expires_at

\* ---- C2
\* C2: in every reachable state a non-null profile belongs to the current
\* user: user is non-null and profile.id = user.id.
C2_ProfileBelongsToUser ==
  authState.profile # NullProfile =>
    /\ authState.user # NullUser
    /\ authState.profile.id = authState.user

\* ---- C3
\* C3: after restore() found a session and its profile fetch failed, the
\* state has isAuthenticated false, loading false, an error, and no user,
\* also when a provider notification was handled before the failure.
C3_RestoreFetchFailureUnauthenticated ==
  RestoreFetchFailed =>
    /\ ~authState.isAuthenticated
    /\ ~authState.loading
    /\ authState.error # NullError
    /\ authState.user = NullUser

\* ---- C4
\* C4: every provider notification overwrites SessionState: when its
\* profile fetch succeeds the state is Authenticated for the session's
\* user; when the fetch fails the state is Unauthenticated with loading
\* false and an error; when it carries no session the state is empty.
C4_NotificationOverwrites ==
  last.op = "notification" =>
    /\ last.cause = "" =>
          /\ authState.isAuthenticated
          /\ authState.user # NullUser
          /\ authState.user = authState.session.user
          /\ authState.profile.id = authState.user
    /\ last.cause = "fetch" =>
          /\ ~authState.isAuthenticated
          /\ ~authState.loading
          /\ authState.error # NullError
    /\ last.cause = "noSession" => authState = EmptyState

\* ---- C5
\* C5: when a notification without session has been handled, user, profile
\* and session are null, isAuthenticated is false and error is null, also
\* when isAuthenticated was true before.
C5_NullNotificationClears ==
  last = [op |-> "notification", outcome |-> "resolved", cause |-> "noSession",
          was |-> TRUE] =>
    /\ authState.user = NullUser
    /\ authState.profile = NullProfile
    /\ authState.session = NullSession
    /\ ~authState.isAuthenticated
    /\ authState.error = NullError

C5_Witness ==
  /\ last.op = "notification"
  /\ last.cause = "noSession"
  /\ last.was
  /\ authState = EmptyState

\* ---- C6
\* C6 as stated: a signIn that fails at the provider (error, or no session)
\* ends rejected with isAuthenticated false, error a non-empty message, and
\* user, profile, session, loading equal to their values before the call.
C6_FailedSignInRestoresCallState ==
  [][SignInProviderFails =>
       /\ last'.op = "signIn" /\ last'.outcome = "rejected"
       /\ ~authState'.isAuthenticated
       /\ authState'.error \notin {NullError, ""}
       /\ authState'.user = signInT.at.user
       /\ authState'.profile = signInT.at.profile
       /\ authState'.session = signInT.at.session
       /\ authState'.loading = signInT.at.loading]_vars

\* C6 amended: such a signIn ends rejected with isAuthenticated false, error
\* a non-empty message, and user, profile, session, loading equal to their
\* values at the moment the failure is recorded (what a notification or
\* another operation wrote while the provider call was in flight stays).
C6_FailedSignInKeepsCurrentState ==
  [][SignInProviderFails =>
       /\ last'.op = "signIn" /\ last'.outcome = "rejected"
       /\ ~authState'.isAuthenticated
       /\ authState'.error \notin {NullError, ""}
       /\ authState'.user = authState.user
       /\ authState'.profile = authState.profile
       /\ authState'.session = authState.session
       /\ authState'.loading = authState.loading]_vars

\* a signIn failed at the provider over a state that holds a user
C6_Witness ==
  /\ last.op = "signIn"
  /\ last.cause \in {"provider", "noSession"}
  /\ authState.user # NullUser
  /\ ~authState.isAuthenticated

\* ---- C7
\* C7: a signIn whose credentials are accepted and whose profile fetch
\* succeeds resolves and leaves isAuthenticated true, user and session
\* those of the returned session, the profile of that user, error null.
C7_SignInSuccess ==
  [][SignInSucceeds =>
       /\ last'.op = "signIn"
       /\ authState'.isAuthenticated
       /\ authState'.session = signInT.session
       /\ authState'.user = signInT.session.user
       /\ authState'.profile \in ProfilesOf(signInT.session.user)
       /\ authState'.error = NullError]_vars

\* signIn resolved, called in a state that was not authenticated
C7_Witness ==
  /\ last = [op |-> "signIn", outcome |-> "resolved", cause |-> "", was |-> FALSE]
  /\ authState.isAuthenticated
  /\ authState.error = NullError

\* ---- C8
\* C8 as stated: when signIn's profile fetch fails, signIn rejects and
\* isAuthenticated keeps the value it had before the call.
C8_FetchFailureKeepsFlag ==
  [][SignInFetchFails =>
       /\ last'.op = "signIn"
       /\ authState'.isAuthenticated = signInT.at.isAuthenticated]_vars

\* C8 amended: when signIn's profile fetch fails, signIn rejects and sets
\* isAuthenticated to false whatever it was; user, profile and session
\* stay as they are and error is set.
C8_FetchFailureClearsFlag ==
  [][SignInFetchFails =>
       /\ last'.op = "signIn"
       /\ ~authState'.isAuthenticated
       /\ authState'.error # NullError
       /\ authState'.user = authState.user
       /\ authState'.profile = authState.profile
       /\ authState'.session = authState.session]_vars

\* the fetch failed while the flag was set
C8_Witness ==
  /\ last = [op |-> "signIn", outcome |-> "rejected", cause |-> "fetch", was |-> TRUE]
  /\ ~authState.isAuthenticated
  /\ authState.user # NullUser

\* ---- C9
\* C9: after a signOut whose provider call succeeded, user, profile,
\* session and error are null and isAuthenticated is false.
C9_SignOutClears ==
  (last.op = "signOut" /\ last.outcome = "resolved") =>
    /\ authState.user = NullUser
    /\ authState.profile = NullProfile
    /\ authState.session = NullSession
    /\ authState.error = NullError
    /\ ~authState.isAuthenticated

\* signOut succeeded from an authenticated state
C9_Witness ==
  /\ last = [op |-> "signOut", outcome |-> "resolved", cause |-> "", was |-> TRUE]
  /\ authState.user = NullUser

\* ---- C10
\* C10: a signOut whose provider call fails rejects, leaves user, profile,
\* session, isAuthenticated and loading as they are, and sets error to a
\* non-empty message.
C10_FailedSignOutFrame ==
  [][SignOutFails =>
       /\ last'.op = "signOut"
       /\ authState'.user = authState.user
       /\ authState'.profile = authState.profile
       /\ authState'.session = authState.session
       /\ authState'.isAuthenticated = authState.isAuthenticated
       /\ authState'.loading = authState.loading
       /\ authState'.error \notin {NullError, ""}]_vars

\* signOut failed and the user is still authenticated, with an error
C10_Witness ==
  /\ last = [op |-> "signOut", outcome |-> "rejected", cause |-> "provider", was |-> TRUE]
  /\ authState.isAuthenticated
  /\ authState.error # NullError

\* ---- C11
\* the step in which a caller invokes updateProfile
UpdateProfileInvoked ==
  /\ ops' = ops + 1
  /\ updateT.pc = "idle"
  /\ UNCHANGED <<handlers, signInT, signUpT, signOutT>>
  /\ \/ updateT'.pc = "store"
     \/ last'.op = "updateProfile" /\ last'.cause = "precondition"

\* C11: updateProfile invoked while user is null rejects at once, sends
\* nothing to the Profile Store and leaves SessionState unchanged.
C11_UpdateWithoutUserRejects ==
  [][(UpdateProfileInvoked /\ authState.user = NullUser) =>
       /\ last'.op = "updateProfile"
       /\ last'.outcome = "rejected"
       /\ last'.cause = "precondition"
       /\ updateT'.pc = "idle"
       /\ authState' = authState]_vars

\* updateProfile was rejected for want of a user
C11_Witness ==
  /\ last.op = "updateProfile"
  /\ last.cause = "precondition"
  /\ authState.user = NullUser
  /\ updateT.pc = "idle"

\* ---- C12
UpdateProfileAnswered ==
  /\ updateT.pc = "store"
  /\ updateT'.pc = "idle"

\* C12: when the store answers an update sent with a user present: on
\* success profile becomes the returned row, error becomes null and user,
\* session, isAuthenticated, loading stay; on failure profile, user and
\* session stay, error is set and updateProfile rejects.
C12_UpdateProfileEffect ==
  [][UpdateProfileAnswered =>
       /\ updateT.uid # NullUser
       /\ last'.op = "updateProfile"
       /\ authState'.user = authState.user
       /\ authState'.session = authState.session
       /\ authState'.isAuthenticated = authState.isAuthenticated
       /\ authState'.loading = authState.loading
       /\ \/ /\ last'.outcome = "resolved"
             /\ authState'.profile = [id |-> updateT.uid, username |-> updateT.name]
             /\ authState'.error = NullError
          \/ /\ last'.outcome = "rejected"
             /\ authState'.profile = authState.profile
             /\ authState'.error # NullError]_vars

\* an update succeeded for the user who is still signed in
C12_Witness ==
  /\ last.op = "updateProfile"
  /\ last.outcome = "resolved"
  /\ authState.isAuthenticated
  /\ authState.profile.id = authState.user

\* ---- C13
\* C13: loading starts true, is true only while the initial restoration is
\* still running, and once false it is never true again.
C13_LoadingOnlyDuringRestore ==
  /\ authState.loading = TRUE
  /\ [](authState.loading => initT.pc # "done")
  /\ [][~authState.loading => ~authState'.loading]_vars

\* restore is over and callers have used the operations
C13_Witness ==
  /\ ~authState.loading
  /\ initT.pc = "done"
  /\ last.op \in {"signIn", "signUp", "signOut", "updateProfile", "clearError"}
  /\ ops = MaxOps
\* ---- C14
\* C14: when every provider and store call is answered, restore() comes to
\* an end and loading is false from then on, whatever getSession and the
\* profile fetch answer.
C14_RestoreEnds ==
  <>[](initT.pc = "done" /\ ~authState.loading)

\* restore ended on a failed profile fetch
C14_Witness ==
  /\ initT.pc = "done"
  /\ last.op = "restore"
  /\ last.cause = "fetch"
  /\ ~authState.loading
\* ---- C15
\* C15: when restore() has found no session, isAuthenticated is false,
\* loading is false, error is null and user, profile, session are null.
C15_RestoreWithoutSession ==
  (last.op = "restore" /\ last.cause = "noSession") =>
    /\ ~authState.isAuthenticated
    /\ ~authState.loading
    /\ authState.error = NullError
    /\ authState.user = NullUser
    /\ authState.profile = NullProfile
    /\ authState.session = NullSession

\* restore found no session and nothing has been delivered or called
C15_Witness ==
  /\ last.op = "restore"
  /\ last.cause = "noSession"
  /\ initT.pc = "done"
  /\ ops = 0

\* ---- C16
\* C16: after the effect's cleanup has unsubscribed, SessionState is never
\* written again, not even by a task that was suspended at that moment.
C16_NoWriteAfterTeardown ==
  [][~subscribed => authState' = authState]_vars

\* ---- C17
FailingOps == {"signIn", "signUp", "signOut", "updateProfile"}

\* C17 as stated: whenever signIn, signUp, signOut or updateProfile has
\* failed, on any path, it has rejected and error is non-null.
C17_EveryFailureSetsError ==
  (last.op \in FailingOps /\ last.cause # "") =>
    /\ last.outcome = "rejected"
    /\ authState.error # NullError

\* C17 amended: whenever one of them has failed it has rejected, and error
\* is non-null unless the failure is updateProfile's missing-user check,
\* which leaves SessionState as it is.
C17_FailureSetsErrorButPrecondition ==
  (last.op \in FailingOps /\ last.cause # "") =>
    /\ last.outcome = "rejected"
    /\ last.cause # "precondition" => authState.error # NullError

\* updateProfile failed at the store with a user signed in
C17_Witness ==
  /\ last.op = "updateProfile"
  /\ last.cause = "store"
  /\ last.outcome = "rejected"
  /\ authState.error # NullError
  /\ authState.isAuthenticated

\* ---- C18
SignUpWithoutSession ==
  /\ signUpT.pc = "auth"
  /\ signUpT'.pc = "idle"
  /\ last'.cause = "noSession"

\* C18: a signUp answered without session and without error rejects, sets
\* error, leaves isAuthenticated false, starts no profile fetch and leaves
\* user, profile, session as they are.
C18_SignUpConfirmationPending ==
  [][SignUpWithoutSession =>
       /\ last'.op = "signUp"
       /\ last'.outcome = "rejected"
       /\ authState'.error # NullError
       /\ ~authState'.isAuthenticated
       /\ signUpT'.pc = "idle"
       /\ authState'.user = authState.user
       /\ authState'.profile = authState.profile
       /\ authState'.session = authState.session]_vars

\* confirmation was pending for a signUp called while authenticated
C18_Witness ==
  /\ last = [op |-> "signUp", outcome |-> "rejected", cause |-> "noSession",
             was |-> TRUE]
  /\ ~authState.isAuthenticated
  /\ authState.error # NullError

\* ---- C19
\* C19: whenever the route gets as far as its expiry check, it takes the
\* session for expired exactly when now >= expires_at, whatever expires_at
\* is: past, equal to now, future, zero, or absent (nothing to compare).
C19_ExpiredIffNowReachedExpiry ==
  (last.op = "render" /\ last.outcome \in {"expired", "children"}) =>
    (last.outcome = "expired" <=>
       /\ authState.session.expires_at # Absent
       /\ now >= authState.session.expires_at)

\* a task marked as overtaken by a later notification completes
SupersededCompletes ==
  \/ initT.superseded /\ initT.pc # "done" /\ initT'.pc = "done"
  \/ signInT.superseded /\ signInT.pc # "idle" /\ signInT'.pc = "idle"
  \/ \E h \in handlers : h.superseded /\ h \notin handlers'

\* C20: a notification handler, restore() or signIn that was suspended when a
\* later notification set SessionState does not change SessionState when it
\* completes, so that the state set by the later notification stays.
C20_SupersededTaskDoesNotWrite ==
  [][SupersededCompletes => authState' = authState]_vars

\* ---- C21
\* C21 as stated: in every reachable state isAuthenticated is true only if
\* user, session and profile are all non-null, user is the session's user,
\* and error is null.
C21_AuthenticatedImpliesCleanState ==
  authState.isAuthenticated =>
    /\ authState.user # NullUser
    /\ authState.session # NullSession
    /\ authState.profile # NullProfile
    /\ authState.user = authState.session.user
    /\ authState.error = NullError

\* C21 amended: in every reachable state isAuthenticated is true only if
\* user, session and profile are all non-null and user is the session's
\* user.  (error is an attribute beside the flag: a failed signOut or
\* updateProfile sets it and leaves the flag as it was.)
C21_AuthenticatedImpliesIdentity ==
  authState.isAuthenticated =>
    /\ authState.user # NullUser
    /\ authState.session # NullSession
    /\ authState.profile # NullProfile
    /\ authState.user = authState.session.user

\* the flag is set, the identity is complete, and an error is showing
C21_Witness ==
  /\ authState.isAuthenticated
  /\ authState.profile # NullProfile
  /\ authState.error # NullError
  /\ last.outcome = "rejected"

\* ---- C22
\* the session of st has an expiry time and the clock t has reached it
PastExpiry(st, t) ==
  /\ st.session.expires_at # Absent
  /\ t >= st.session.expires_at

\* C22: the route renders its children exactly when loading is false, error
\* is null, isAuthenticated is true, session is non-null and the session is
\* not expired; otherwise it renders, in this order of priority, the spinner
\* (loading), the error panel (error), the redirect to /login
\* (unauthenticated or no session), the redirect for an expired session.
C22_ChildrenOnlyForLiveSession ==
  last.op = "render" =>
    /\ last.outcome = "children" <=>
          /\ ~authState.loading
          /\ authState.error = NullError
          /\ authState.isAuthenticated
          /\ authState.session # NullSession
          /\ ~PastExpiry(authState, now)
    /\ authState.loading => last.outcome = "spinner"
    /\ (~authState.loading /\ authState.error # NullError) =>
          last.outcome = "error"
    /\ (/\ ~authState.loading
        /\ authState.error = NullError
        /\ ~authState.isAuthenticated \/ authState.session = NullSession) =>
          last.outcome = "login"
    /\ (/\ ~authState.loading
        /\ authState.error = NullError
        /\ authState.isAuthenticated
        /\ authState.session # NullSession
        /\ PastExpiry(authState, now)) =>
          last.outcome = "expired"

\* C22 apart from the session whose expires_at is 0: the same order of
\* checks, with a session of expires_at 0 rendered as the code renders it
C22_ChildrenOnlyForLiveSessionButZero ==
  (last.op = "render" /\ authState.session.expires_at # 0) =>
    C22_ChildrenOnlyForLiveSession

====
